---- MODULE Spec2Model ----
(***************************************************************************)
(* A model of nlf/converter.py: get_models_schema (the depth-first schema  *)
(* walk over Django model definitions) and nl_to_orm (prompt building, the *)
(* chat call, reply post-processing and syntax validation).                *)
(*                                                                         *)
(* Text is a sequence of tokens.  In Schema Text and prompts a token is a  *)
(* literal piece of an f-string, an interpolated name, or the newline      *)
(* "\n"; in an endpoint reply a token is one character (BT, " ", "\n",    *)
(* "x", "(", ")", ";") or the word "python" / "js" taken as a unit.        *)
(***************************************************************************)
EXTENDS Naturals, Sequences, FiniteSets

\* ------------------------------------------------------------------ bounds
\* Longest field list of one model definition.
MaxFields == 2
\* Longest models_list handed to get_models_schema.
MaxInput == 2
\* Longest code body inside an endpoint reply.
MaxBody == 2

\* ------------------------------------------------- model definitions (Django)
\* Identities of the model classes the host application defines.
ModelIds == {"m1", "m2", "m3"}

\* model.__name__
ModelName(m) ==
    CASE m = "m1" -> "Candidate"
      [] m = "m2" -> "Stage"
      [] OTHER    -> "Tag"

\* field.related_model of a field without a concrete target.
None == "None"

\* field.name of the i-th field returned by model._meta.get_fields().
FieldName(i) ==
    CASE i = 1 -> "content_object"
      [] i = 2 -> "owner"
      [] i = 3 -> "title"
      [] OTHER -> "tags"

\* The three shapes of field the Django reflection API hands out: a
\* GenericForeignKey, a field with a related_model, and a plain field.
MkField(i, kind) ==
    IF kind = "generic"
    THEN [name |-> FieldName(i), cls |-> "GenericForeignKey",
          related_model |-> None, internal_type |-> "None"]
    ELSE IF kind = "plain"
    THEN [name |-> FieldName(i), cls |-> "Field",
          related_model |-> None, internal_type |-> "CharField"]
    ELSE [name |-> FieldName(i), cls |-> "ForeignKey",
          related_model |-> kind, internal_type |-> "ForeignKey"]

FieldKinds == {"generic", "plain"} \cup ModelIds

\* The field lists of length n.
KindLists(n) == [1..n -> FieldKinds]

MkFields(kl) == [i \in 1..Len(kl) |-> MkField(i, kl[i])]

\* Most fields a registry holds in all.
MaxTotalFields == Cardinality(ModelIds)

\* How many fields each model has.
Shapes ==
    {sh \in [ModelIds -> 0..MaxFields] :
        sh["m1"] + sh["m2"] + sh["m3"] <= MaxTotalFields}

\* Every registry of model definitions with at most MaxFields fields per
\* model and at most MaxTotalFields fields in all.
Registries ==
    UNION {{[m \in ModelIds |->
                MkFields(IF m = "m1" THEN a ELSE IF m = "m2" THEN b ELSE c)] :
              a \in KindLists(sh["m1"]), b \in KindLists(sh["m2"]),
              c \in KindLists(sh["m3"])} :
           sh \in Shapes}

InputLists == UNION {[1..n -> ModelIds] : n \in 0..MaxInput}

\* Deepest chain of add_model_schema calls the interpreter is asked for
\* before the model stops following it (Python's recursion limit).
MaxDepth == Cardinality(ModelIds) + 2

\* ------------------------------------------------------------------ state
VARIABLES
    registry,        \* model._meta.get_fields(include_hidden=True), per model
    models_list,     \* get_models_schema's argument
    loop_i,          \* position of "for model in models_list"
    schema_parts,    \* the list of lines built so far
    visited_models,  \* the visited set
    stack,           \* frames of add_model_schema: [model, at]
    schema_text,     \* get_models_schema's return value
    pc,              \* position of the running call
    caller,          \* who called get_models_schema: "api" or "nl_to_orm"
    arg,             \* the models argument as the caller of nl_to_orm gave it
    models,          \* nl_to_orm's local "models"
    custom_system_prompt,
    validate_code,
    start_model,
    request,         \* what ollama.chat was called with
    response,        \* response['message']['content']
    generated_query,
    outcome,         \* "pending", "returned" or the exception raised
    result,          \* the returned string, or the exception's message
    prev             \* the caller's record of its previous nl_to_orm call

walk_vars == <<models_list, loop_i, schema_parts, visited_models, stack>>
call_vars == <<arg, models, custom_system_prompt, validate_code>>
reply_vars == <<response, generated_query, outcome, result>>

vars == <<registry, models_list, loop_i, schema_parts, visited_models,
          stack, schema_text, pc, caller, arg, models,
          custom_system_prompt, validate_code, start_model, request,
          response, generated_query, outcome, result, prev>>

\* --------------------------------------------------------------- text
NL == "\n"

RECURSIVE Join(_)
\* "\n".join(parts)
Join(parts) ==
    IF parts = <<>> THEN <<>>
    ELSE IF Len(parts) = 1 THEN parts[1]
    ELSE parts[1] \o <<NL>> \o Join(Tail(parts))

\* str.startswith
StartsWith(t, p) == Len(t) >= Len(p) /\ SubSeq(t, 1, Len(p)) = p

\* str.find, 1-based; 0 when sep does not occur
Find(t, sep) ==
    LET hits == {i \in 1..(Len(t) + 1) :
                    i + Len(sep) - 1 <= Len(t)
                    /\ SubSeq(t, i, i + Len(sep) - 1) = sep}
    IN  IF hits = {} THEN 0
        ELSE CHOOSE i \in hits : \A j \in hits : i <= j

RECURSIVE SplitOn(_, _)
\* str.split(sep)
SplitOn(t, sep) ==
    LET i == Find(t, sep)
    IN  IF i = 0 THEN <<t>>
        ELSE <<SubSeq(t, 1, i - 1)>>
             \o SplitOn(SubSeq(t, i + Len(sep), Len(t)), sep)

RECURSIVE LStripSet(_, _)
LStripSet(t, S) ==
    IF t # <<>> /\ t[1] \in S THEN LStripSet(Tail(t), S) ELSE t

RECURSIVE RStripSet(_, _)
RStripSet(t, S) ==
    IF t # <<>> /\ t[Len(t)] \in S
    THEN RStripSet(SubSeq(t, 1, Len(t) - 1), S) ELSE t

\* str.strip(chars)
StripSet(t, S) == RStripSet(LStripSet(t, S), S)

Whitespace == {" ", NL}

\* str.strip()
Strip(t) == StripSet(t, Whitespace)

\* f"Model: {model.__name__}"
HeaderLine(m) == <<"Model: ", ModelName(m)>>

\* The GenericForeignKey line of converter.py:22.
GenericLine(f) ==
    <<"  - ", f.name, ": ", "GenericForeignKey",
      " (references any model via ", "ContentType", ", use ",
      f.name, "__field_name", " for filtering)">>

\* The related-model line of converter.py:24.
RelatedLine(f) ==
    <<"  - ", f.name, ": ForeignKey to ", ModelName(f.related_model),
      " (access via ", f.name, "__field_name", ")">>

\* A plain field line that prints the field's class instead of its
\* internal type.
PlainLineByClass(f) == <<"  - ", f.name, ": ", f.cls>>

\* The plain-field line of converter.py:27.
PlainLine(f) == <<"  - ", f.name, ": ", f.internal_type>>

BlankLine == <<>>

\* ------------------------------------------------- get_models_schema
Top == stack[Len(stack)]
Pop == SubSeq(stack, 1, Len(stack) - 1)
Fields(m) == registry[m]
CurField == Fields(Top.model)[Top.at]
Advance == Pop \o <<[Top EXCEPT !.at = Top.at + 1]>>

\* A visited check that never answers yes.
NeverVisited(m) == FALSE

\* "model in visited_models"
AlreadyVisited(m) == m \in visited_models

\* A visited set that is never added to.
ForgetVisited(m) == visited_models

\* visited_models.add(model)
MarkVisited(m) == visited_models \cup {m}

\* A GenericForeignKey test that never answers yes.
NeverGeneric(f) == FALSE

\* isinstance(field, GenericForeignKey)
IsGeneric(f) == f.cls = "GenericForeignKey"

\* A related-model test that never answers yes.
NeverRelated(f) == FALSE

\* hasattr(field, 'related_model') and field.related_model
HasRelated(f) == f.related_model # None

InWalk == pc = "for_models"
AtEntry == InWalk /\ stack # <<>> /\ Top.at = 0
AtField == InWalk /\ stack # <<>> /\ Top.at \in 1..Len(Fields(Top.model))

\* for model in models_list: add_model_schema(model)
CallAddModelSchema ==
    /\ InWalk /\ stack = <<>>
    /\ loop_i <= Len(models_list)
    /\ stack' = <<[model |-> models_list[loop_i], at |-> 0]>>
    /\ loop_i' = loop_i + 1
    /\ UNCHANGED <<registry, models_list, schema_parts, visited_models,
                   schema_text, pc, caller, call_vars, start_model,
                   request, reply_vars, prev>>

\* if model in visited_models: return
SkipVisited ==
    /\ AtEntry
    /\ AlreadyVisited(Top.model)
    /\ stack' = Pop
    /\ UNCHANGED <<registry, models_list, loop_i, schema_parts,
                   visited_models, schema_text, pc, caller, call_vars,
                   start_model, request, reply_vars, prev>>

\* visited_models.add(model); schema_parts.append(f"Model: ...")
BeginModel ==
    /\ AtEntry
    /\ ~AlreadyVisited(Top.model)
    /\ visited_models' = MarkVisited(Top.model)
    /\ schema_parts' = Append(schema_parts, HeaderLine(Top.model))
    /\ stack' = Advance
    /\ UNCHANGED <<registry, models_list, loop_i, schema_text, pc, caller,
                   call_vars, start_model, request, reply_vars, prev>>

GenericField ==
    /\ AtField
    /\ IsGeneric(CurField)
    /\ schema_parts' = Append(schema_parts, GenericLine(CurField))
    /\ stack' = Advance
    /\ UNCHANGED <<registry, models_list, loop_i, visited_models,
                   schema_text, pc, caller, call_vars, start_model,
                   request, reply_vars, prev>>

RelatedField ==
    /\ AtField
    /\ ~IsGeneric(CurField)
    /\ HasRelated(CurField)
    /\ Len(stack) < MaxDepth
    /\ schema_parts' = Append(schema_parts, RelatedLine(CurField))
    /\ stack' = Advance \o <<[model |-> CurField.related_model, at |-> 0]>>
    /\ UNCHANGED <<registry, models_list, loop_i, visited_models,
                   schema_text, pc, caller, call_vars, start_model,
                   request, reply_vars, prev>>

PlainField ==
    /\ AtField
    /\ ~IsGeneric(CurField)
    /\ ~HasRelated(CurField)
    /\ schema_parts' = Append(schema_parts, PlainLine(CurField))
    /\ stack' = Advance
    /\ UNCHANGED <<registry, models_list, loop_i, visited_models,
                   schema_text, pc, caller, call_vars, start_model,
                   request, reply_vars, prev>>

\* schema_parts.append("") and the return of add_model_schema
EndModel ==
    /\ InWalk /\ stack # <<>>
    /\ Top.at = Len(Fields(Top.model)) + 1
    /\ schema_parts' = Append(schema_parts, BlankLine)
    /\ stack' = Pop
    /\ UNCHANGED <<registry, models_list, loop_i, visited_models,
                   schema_text, pc, caller, call_vars, start_model,
                   request, reply_vars, prev>>

\* return "\n".join(schema_parts), to the API caller or into nl_to_orm's
\* "schema"
ReturnSchema ==
    /\ InWalk /\ stack = <<>>
    /\ loop_i > Len(models_list)
    /\ schema_text' = Join(schema_parts)
    /\ pc' = IF caller = "nl_to_orm" THEN "start_model" ELSE "done"
    /\ UNCHANGED <<registry, walk_vars, caller, call_vars, start_model,
                   request, reply_vars, prev>>

NoArg == [list |-> TRUE, model |-> None, items |-> <<>>]
NoRequest == [model |-> "", messages |-> <<>>, options |-> <<>>]

IdleCall ==
    /\ arg = NoArg
    /\ models = NoArg
    /\ custom_system_prompt = <<>>
    /\ validate_code = TRUE
    /\ start_model = ""
    /\ request = NoRequest
    /\ response = <<>>
    /\ generated_query = <<>>
    /\ outcome = "pending"
    /\ result = <<>>
    /\ prev = <<>>

InitSchema ==
    /\ registry \in Registries
    /\ models_list \in InputLists
    /\ loop_i = 1
    /\ schema_parts = <<>>
    /\ visited_models = {}
    /\ stack = <<>>
    /\ schema_text = <<>>
    /\ pc = "for_models"
    /\ caller = "api"
    /\ IdleCall

NextSchema ==
    \/ CallAddModelSchema
    \/ SkipVisited
    \/ BeginModel
    \/ GenericField
    \/ RelatedField
    \/ PlainField
    \/ EndModel
    \/ ReturnSchema

SpecSchema == InitSchema /\ [][NextSchema]_vars

\* The walk is a run of one Python call: it keeps going until it returns.
FairSpecSchema == SpecSchema /\ WF_vars(NextSchema)

\* --------------------------------------------------------- nl_to_orm
\* A models argument that is one model class.
Single(m) == [list |-> FALSE, model |-> m, items |-> <<>>]

\* A models argument that is a list of model classes.
List(ms) == [list |-> TRUE, model |-> None, items |-> ms]

\* isinstance(models, list)
IsList(a) == a.list

\* A normalisation that leaves the argument as it came.
KeepAsGiven(a) == a

\* if not isinstance(models, list): models = [models]
NormalizeModels(a) == IF IsList(a) THEN a ELSE List(<<a.model>>)

\* The nl_query argument.
NlQuery == <<"candidates with score over 5">>

\* The ollama_model, temperature and max_tokens defaults.
OllamaModel == "mistral:instruct"
Temperature == "0.2"
MaxTokens == 500

\* A caller's template with the three substitution points.
Template ==
    <<"Schema:\n", "{schema}", "\nStart from ", "{start_model}",
      "\nTask: ", "{nl_query}">>

RECURSIVE Format(_, _, _, _)
\* custom_system_prompt.format(schema=..., nl_query=..., start_model=...)
Format(t, schema, nl_query, start) ==
    IF t = <<>> THEN <<>>
    ELSE (CASE t[1] = "{schema}"      -> schema
            [] t[1] = "{nl_query}"    -> nl_query
            [] t[1] = "{start_model}" -> <<start>>
            [] OTHER                  -> <<t[1]>>)
         \o Format(Tail(t), schema, nl_query, start)

\* The default system prompt of converter.py:86-104.
DefaultPrompt(schema, start) ==
    <<"You are an expert in Django ORM queries.\nGiven this schema (with relations):\n\n">>
    \o schema
    \o <<"\n\nConvert the natural language to a valid Django ORM query string.\n- Start with ",
         start,
         ".objects\n- Use ALL QuerySet methods as needed ...",
         "\n- For GenericForeignKey: Use content_type and object_id fields for filtering ...",
         "\n- Output ONLY the Python code string, executable as-is.">>

\* if custom_system_prompt: ... else: ...
SystemPrompt(custom, schema, nl_query, start) ==
    IF custom # <<>> THEN Format(custom, schema, nl_query, start)
    ELSE DefaultPrompt(schema, start)

\* The arguments of ollama.chat.
ChatRequest(system_prompt, nl_query) ==
    [model |-> OllamaModel,
     messages |-> <<[role |-> "system", content |-> system_prompt],
                    [role |-> "user", content |-> nl_query]>>,
     options |-> <<Temperature, MaxTokens>>]

\* The backtick character.
BT == "BACKTICK"

FenceMark == <<BT, BT, BT>>
FencePython == FenceMark \o <<"python">>

\* A fence removal that knows only the backtick-stripping branch.
StripTicksOnly(g) ==
    IF StartsWith(g, <<BT>>) THEN Strip(StripSet(g, {BT})) ELSE g

\* converter.py:119-122
ExtractCode(g) ==
    IF StartsWith(g, FencePython)
    THEN Strip(SplitOn(SplitOn(g, FencePython)[2], FenceMark)[1])
    ELSE IF StartsWith(g, <<BT>>)
    THEN Strip(StripSet(g, {BT}))
    ELSE g

\* ---- ast.parse(source), mode "exec", on the token alphabet of replies:
\* names (runs of word tokens), parentheses (grouping, call, empty tuple),
\* ";" between simple statements, newlines between statement lines,
\* implicit line joining inside parentheses, indentation.
WordTokens == {"x", "python", "js"}

ParseStart ==
    [ok |-> TRUE, diag |-> "", depth |-> 0, prev |-> "start", bol |-> TRUE,
     indent |-> FALSE, inname |-> FALSE, stmts |-> 0, semis |-> 0]

ParseFail(st, why) == [st EXCEPT !.ok = FALSE, !.diag = why]

\* The start of an operand: a name or an opening parenthesis.
StartOperand(st) ==
    IF st.depth = 0 /\ st.bol /\ st.indent
    THEN ParseFail(st, "unexpected indent")
    ELSE IF st.prev \in {"start", "semi"}
    THEN [st EXCEPT !.stmts = st.stmts + 1, !.bol = FALSE]
    ELSE IF st.prev = "open"
    THEN [st EXCEPT !.bol = FALSE]
    ELSE ParseFail(st, "invalid syntax")

ParseStep(st, c) ==
    IF ~st.ok THEN st
    ELSE IF c \in WordTokens
    THEN IF st.inname THEN st
         ELSE LET s2 == StartOperand(st)
              IN  IF s2.ok
                  THEN [s2 EXCEPT !.prev = "operand", !.inname = TRUE]
                  ELSE s2
    ELSE IF c = "("
    THEN IF st.prev = "operand"
         THEN [st EXCEPT !.depth = st.depth + 1, !.prev = "open",
                         !.inname = FALSE]
         ELSE LET s2 == StartOperand(st)
              IN  IF s2.ok
                  THEN [s2 EXCEPT !.depth = st.depth + 1, !.prev = "open",
                                  !.inname = FALSE]
                  ELSE s2
    ELSE IF c = ")"
    THEN IF st.depth > 0 /\ st.prev \in {"operand", "open"}
         THEN [st EXCEPT !.depth = st.depth - 1, !.prev = "operand",
                         !.inname = FALSE]
         ELSE ParseFail(st, IF st.depth = 0 THEN "unmatched )"
                            ELSE "invalid syntax")
    ELSE IF c = ";"
    THEN IF st.depth = 0 /\ st.prev = "operand"
         THEN [st EXCEPT !.prev = "semi", !.semis = st.semis + 1,
                         !.inname = FALSE]
         ELSE ParseFail(st, "invalid syntax")
    ELSE IF c = " "
    THEN [st EXCEPT !.inname = FALSE,
                    !.indent = st.indent \/ (st.depth = 0 /\ st.bol)]
    ELSE IF c = NL
    THEN IF st.depth > 0 THEN [st EXCEPT !.inname = FALSE]
         ELSE [st EXCEPT !.prev = "start", !.bol = TRUE, !.indent = FALSE,
                         !.inname = FALSE]
    ELSE ParseFail(st, "invalid syntax")

RECURSIVE ParseFrom(_, _, _)
ParseFrom(t, i, st) ==
    IF i > Len(t)
    THEN IF st.ok /\ st.depth > 0 THEN ParseFail(st, "( was never closed")
         ELSE st
    ELSE ParseFrom(t, i + 1, ParseStep(st, t[i]))

\* ast.parse(generated_query): the parse state at the end of the text;
\* .ok is FALSE where Python raises SyntaxError, .diag is str(e).
AstParse(t) == ParseFrom(t, 1, ParseStart)

\* A validation switch that is always on.
AlwaysValidate(flag) == TRUE

\* A validation switch that is never on.
NeverValidate(flag) == FALSE

\* if validate_code:
ShouldValidate(flag) == flag

\* An error message without the candidate text.
ErrorMessageBare(e, q) == <<"Invalid query syntax: ", e>>

\* f"Invalid query syntax: {e}\nQuery: {generated_query}"
ErrorMessage(e, q) == <<"Invalid query syntax: ", e, "\nQuery: ">> \o q

\* ---- the replies of the chat endpoint
BodyChars == {"x", "(", ")", ";", BT}
Bodies == UNION {[1..n -> BodyChars] : n \in 0..MaxBody}
Opens == {<<>>, <<BT>>, FenceMark}
Tags == {<<>>, <<"python">>, <<"js">>, <<"python", "js">>}
Seps == {<<>>, <<NL>>}
Pad(p, t) == IF p THEN <<" ">> \o t \o <<NL>> ELSE t

\* Bare code, inline-code and fenced replies, with and without a language
\* tag, a closing marker and surrounding whitespace.
Replies ==
    {Pad(p, o \o t \o s \o b \o c) :
        p \in BOOLEAN, o \in Opens, t \in Tags, s \in Seps,
        b \in Bodies, c \in Opens}

\* if not isinstance(models, list): models = [models]
Normalize ==
    /\ pc = "normalize"
    /\ models' = NormalizeModels(models)
    /\ pc' = "call_schema"
    /\ UNCHANGED <<registry, walk_vars, schema_text, caller, arg,
                   custom_system_prompt, validate_code, start_model,
                   request, reply_vars, prev>>

\* schema = get_models_schema(models): the call; iterating something that
\* is no list raises TypeError
CallGetModelsSchema ==
    /\ pc = "call_schema"
    /\ IF IsList(models)
       THEN /\ models_list' = models.items
            /\ loop_i' = 1
            /\ schema_parts' = <<>>
            /\ visited_models' = {}
            /\ stack' = <<>>
            /\ pc' = "for_models"
            /\ UNCHANGED <<outcome, result>>
       ELSE /\ outcome' = "TypeError"
            /\ result' = <<"ModelBase object is not iterable">>
            /\ pc' = "done"
            /\ UNCHANGED walk_vars
    /\ UNCHANGED <<registry, schema_text, caller, call_vars, start_model,
                   request, response, generated_query, prev>>

\* start_model = models[0].__name__
StartModel ==
    /\ pc = "start_model"
    /\ start_model' = ModelName(models.items[1])
    /\ pc' = "chat"
    /\ UNCHANGED <<registry, walk_vars, schema_text, caller, call_vars,
                   request, reply_vars, prev>>

\* The system prompt and response = ollama.chat(...).  The endpoint answers
\* with any reply; to a repeated call the caller replays its earlier reply.
Chat ==
    /\ pc = "chat"
    /\ request' = ChatRequest(SystemPrompt(custom_system_prompt, schema_text,
                                           NlQuery, start_model), NlQuery)
    /\ response' \in (IF prev = <<>> THEN Replies ELSE {prev[1].response})
    /\ pc' = "strip"
    /\ UNCHANGED <<registry, walk_vars, schema_text, caller, call_vars,
                   start_model, generated_query, outcome, result, prev>>

\* generated_query = response['message']['content'].strip()
StripReply ==
    /\ pc = "strip"
    /\ generated_query' = Strip(response)
    /\ pc' = "fence"
    /\ UNCHANGED <<registry, walk_vars, schema_text, caller, call_vars,
                   start_model, request, response, outcome, result, prev>>

\* The fence removal of converter.py:119-122.
RemoveFence ==
    /\ pc = "fence"
    /\ generated_query' = ExtractCode(generated_query)
    /\ pc' = "validate"
    /\ UNCHANGED <<registry, walk_vars, schema_text, caller, call_vars,
                   start_model, request, response, outcome, result, prev>>

\* ast.parse raised SyntaxError: raise ValueError(...)
RaiseInvalidSyntax ==
    /\ pc = "validate"
    /\ ShouldValidate(validate_code)
    /\ ~AstParse(generated_query).ok
    /\ outcome' = "ValueError"
    /\ result' = ErrorMessage(AstParse(generated_query).diag, generated_query)
    /\ pc' = "done"
    /\ UNCHANGED <<registry, walk_vars, schema_text, caller, call_vars,
                   start_model, request, response, generated_query, prev>>

\* No validation, or ast.parse succeeded: return generated_query
ReturnQuery ==
    /\ pc = "validate"
    /\ ~(ShouldValidate(validate_code) /\ ~AstParse(generated_query).ok)
    /\ outcome' = "returned"
    /\ result' = generated_query
    /\ pc' = "done"
    /\ UNCHANGED <<registry, walk_vars, schema_text, caller, call_vars,
                   start_model, request, response, generated_query, prev>>

\* What a caller observes of a finished call.
Observed ==
    [arg |-> arg, schema |-> schema_text, start_model |-> start_model,
     request |-> request, response |-> response, outcome |-> outcome,
     result |-> result]

\* The same model in the other form: M for [M], [M] for M.
OtherForm(a) == IF IsList(a) THEN Single(a.items[1]) ELSE List(<<a.model>>)

\* The caller of a finished call with M (or [M]) calls again with [M] (or
\* M) and otherwise the same arguments.
CallAgain ==
    /\ pc = "done"
    /\ caller = "nl_to_orm"
    /\ prev = <<>>
    /\ ~IsList(arg) \/ Len(arg.items) = 1
    /\ prev' = <<Observed>>
    /\ arg' = OtherForm(arg)
    /\ models' = OtherForm(arg)
    /\ pc' = "normalize"
    /\ models_list' = <<>>
    /\ loop_i' = 1
    /\ schema_parts' = <<>>
    /\ visited_models' = {}
    /\ stack' = <<>>
    /\ schema_text' = <<>>
    /\ start_model' = ""
    /\ request' = NoRequest
    /\ response' = <<>>
    /\ generated_query' = <<>>
    /\ outcome' = "pending"
    /\ result' = <<>>
    /\ UNCHANGED <<registry, caller, custom_system_prompt, validate_code>>

\* The model definitions of the calls of nl_to_orm: a Candidate with a
\* GenericForeignKey and a relation to Stage, a Stage relating back and
\* holding a plain field.
QueryRegistry ==
    [m \in ModelIds |->
        IF m = "m1" THEN MkFields(<<"generic", "m2">>)
        ELSE IF m = "m2" THEN MkFields(<<"m1", "plain">>)
        ELSE <<>>]

QueryArgs == {Single("m1"), List(<<"m1">>), List(<<"m2", "m1">>)}

InitQuery ==
    /\ registry = QueryRegistry
    /\ arg \in QueryArgs
    /\ models = arg
    /\ custom_system_prompt \in {<<>>, Template}
    /\ validate_code \in BOOLEAN
    /\ models_list = <<>>
    /\ loop_i = 1
    /\ schema_parts = <<>>
    /\ visited_models = {}
    /\ stack = <<>>
    /\ schema_text = <<>>
    /\ pc = "normalize"
    /\ caller = "nl_to_orm"
    /\ start_model = ""
    /\ request = NoRequest
    /\ response = <<>>
    /\ generated_query = <<>>
    /\ outcome = "pending"
    /\ result = <<>>
    /\ prev = <<>>

NextQuery ==
    \/ Normalize
    \/ CallGetModelsSchema
    \/ CallAddModelSchema
    \/ SkipVisited
    \/ BeginModel
    \/ GenericField
    \/ RelatedField
    \/ PlainField
    \/ EndModel
    \/ ReturnSchema
    \/ StartModel
    \/ Chat
    \/ StripReply
    \/ RemoveFence
    \/ RaiseInvalidSyntax
    \/ ReturnQuery
    \/ CallAgain

SpecQuery == InitQuery /\ [][NextQuery]_vars

\* =================================================================
\* Properties of get_models_schema
\* =================================================================
Done == pc = "done"

Range(s) == {s[i] : i \in DOMAIN s}

\* The lines of the Schema Text (an empty text has no line).
SchemaLines ==
    IF schema_text = <<>> THEN <<>> ELSE SplitOn(schema_text, <<NL>>)

\* How many of the lines L are the header "Model: <name of m>".
HeaderCountIn(L, m) ==
    Cardinality({p \in DOMAIN L : L[p] = <<"Model: ", ModelName(m)>>})

HeaderCount(m) == HeaderCountIn(SchemaLines, m)

DescribedIn(L) == {m \in ModelIds : HeaderCountIn(L, m) >= 1}

Described == DescribedIn(SchemaLines)

Listed == Range(models_list)

\* The models the relation fields of m point to.
Succ(m) == {registry[m][i].related_model : i \in DOMAIN registry[m]} \ {None}

RECURSIVE ReachFrom(_, _)
ReachFrom(S, n) ==
    IF n = 0 THEN S
    ELSE ReachFrom(S \cup UNION {Succ(m) : m \in S}, n - 1)

Reachable(S) == ReachFrom(S, Cardinality(ModelIds))

\* How many input entries and relation fields of described models point to m.
Pointers(m) ==
    Cardinality({i \in DOMAIN models_list : models_list[i] = m})
    + Cardinality({di \in ModelIds \X (1..MaxFields) :
                      /\ di[1] \in Described
                      /\ di[2] <= Len(registry[di[1]])
                      /\ registry[di[1]][di[2]].related_model = m})

\* C1: when get_models_schema has returned, the Schema Text holds at most
\* one "Model: <name>" header line per model, whatever the relation graph
\* (cycles, diamonds, self-relations) and however often the input list or
\* relation fields name the model.
C1_DescribedAtMostOnce ==
    Done => LET L == SchemaLines
            IN  \A m \in ModelIds : HeaderCountIn(L, m) <= 1

\* A model that two or more input entries or relation fields point to has
\* been described, once.
C1_Witness ==
    /\ Done
    /\ \E m \in ModelIds : Pointers(m) >= 2 /\ HeaderCount(m) = 1

\* The models reachable from the input list that lie on a relation cycle.
CycleModels ==
    {m \in Reachable(Listed) : m \in Reachable(Succ(m))}

\* C2: whatever the relation graph, cycles included, get_models_schema
\* returns, and when it has, every model of a cycle reached from the input
\* has exactly one header line in the Schema Text.
C2_CycleTerminates ==
    <>(Done /\ LET L == SchemaLines
                IN  \A m \in CycleModels : HeaderCountIn(L, m) = 1)

\* The walk over a cycle through two or more models has returned.
C2_Witness ==
    /\ Done
    /\ \E a \in CycleModels : \E b \in CycleModels \ {a} :
          /\ b \in Succ(a)
          /\ a \in Reachable({b})
          /\ HeaderCount(a) = 1 /\ HeaderCount(b) = 1

AllPlain(m) ==
    \A i \in DOMAIN registry[m] :
        registry[m][i].cls = "Field" /\ registry[m][i].related_model = None

NoRelationFields == \A m \in Listed : AllPlain(m)

RECURSIVE FirstOccurrences(_)
\* s without the repeats of an earlier element.
FirstOccurrences(s) ==
    IF s = <<>> THEN <<>>
    ELSE LET r == FirstOccurrences(SubSeq(s, 1, Len(s) - 1))
         IN  IF s[Len(s)] \in Range(r) THEN r ELSE Append(r, s[Len(s)])

\* Header, one "  - <name>: <type>" line per field in field order, blank.
PlainBlock(m) ==
    <<<<"Model: ", ModelName(m)>>>>
    \o [i \in 1..Len(registry[m]) |->
           <<"  - ", registry[m][i].name, ": ", registry[m][i].internal_type>>]
    \o <<<<>>>>

RECURSIVE PlainBlocks(_)
PlainBlocks(ms) ==
    IF ms = <<>> THEN <<>> ELSE PlainBlock(ms[1]) \o PlainBlocks(Tail(ms))

\* C3: for an input list whose models have no relation fields, the lines
\* of the Schema Text are exactly, for each model in input order (a repeated
\* model at its first place), its "Model: <name>" line, then one line per
\* field in field order, then a blank line.
C3_PlainModelsInOrder ==
    (Done /\ NoRelationFields) =>
        SchemaLines = PlainBlocks(FirstOccurrences(models_list))

\* Two different relation-free models, one of them with fields, described.
C3_Witness ==
    /\ Done /\ NoRelationFields
    /\ Len(FirstOccurrences(models_list)) >= 2
    /\ \E m \in Listed : registry[m] # <<>>
    /\ Len(SchemaLines) >= 5

IsFieldLine(l) == Len(l) >= 2 /\ l[1] = "  - "

Mentions(l, words) == \E i \in DOMAIN l : l[i] \in words

ContentTypeWords == {"ContentType", "content_type", "content type"}

ObjectIdWords == {"object_id", "object id", "ObjectId", "object identifier"}

FieldNames == {FieldName(i) : i \in 1..MaxFields}

\* The models among D whose field named n is a GenericForeignKey.
GenericOwners(D, n) ==
    {m \in D :
        \E i \in DOMAIN registry[m] :
            /\ registry[m][i].name = n
            /\ registry[m][i].cls = "GenericForeignKey"}

\* The GenericForeignKey field lines of L for the field name n.
GenericLines(L, n) ==
    {p \in DOMAIN L :
        /\ IsFieldLine(L[p])
        /\ L[p][2] = n
        /\ Len(L[p]) >= 4
        /\ L[p][4] = "GenericForeignKey"}

\* The "<name>__field_name" lookup hint.
HasLookupHint(l, n) ==
    \E i \in 1..(Len(l) - 1) : l[i] = n /\ l[i + 1] = "__field_name"

\* C4 as stated: every GenericForeignKey field of a described model has a
\* field line that mentions both the content-type concept and the
\* object-identifier concept.
C4_DualKeyLine ==
    Done =>
        LET L == SchemaLines
            D == DescribedIn(L)
        IN  \A n \in FieldNames :
                Cardinality({p \in GenericLines(L, n) :
                                /\ Mentions(L[p], ContentTypeWords)
                                /\ Mentions(L[p], ObjectIdWords)})
                    = Cardinality(GenericOwners(D, n))

\* C4 as amended: every GenericForeignKey field of a described model has a
\* field line of its own, "<name>: GenericForeignKey (...)", and that line
\* mentions the content-type concept (ContentType) and the
\* "<name>__field_name" lookup hint.
C4_ContentTypeLine ==
    Done =>
        LET L == SchemaLines
            D == DescribedIn(L)
        IN  \A n \in FieldNames :
                /\ Cardinality(GenericLines(L, n))
                       = Cardinality(GenericOwners(D, n))
                /\ \A p \in GenericLines(L, n) :
                       /\ Mentions(L[p], ContentTypeWords)
                       /\ HasLookupHint(L[p], n)

\* A described model with a GenericForeignKey field.
C4_Witness ==
    /\ Done
    /\ \E n \in FieldNames : GenericOwners(Described, n) # {}

\* What a line is: a header for a model name, a field line for a field
\* name, or blank.
Shape(l) ==
    IF l = <<>> THEN <<"blank">>
    ELSE IF l[1] = "Model: " THEN <<"model", l[2]>>
    ELSE IF l[1] = "  - " THEN <<"field", l[2]>>
    ELSE <<"other">>

RECURSIVE DfsModel(_, _)
RECURSIVE DfsFields(_, _, _)
\* Depth-first first-discovery order: the header of m, then per field its
\* line, followed at once by the block of its related model when that model
\* has not been discovered yet, then the blank line.
DfsModel(m, seen) ==
    IF m \in seen THEN [lines |-> <<>>, seen |-> seen]
    ELSE LET r == DfsFields(m, 1, seen \cup {m})
         IN  [lines |-> <<<<"model", ModelName(m)>>>> \o r.lines,
              seen |-> r.seen]

DfsFields(m, i, seen) ==
    IF i > Len(registry[m]) THEN [lines |-> <<<<"blank">>>>, seen |-> seen]
    ELSE LET f == registry[m][i]
             sub == IF f.cls # "GenericForeignKey" /\ f.related_model # None
                    THEN DfsModel(f.related_model, seen)
                    ELSE [lines |-> <<>>, seen |-> seen]
             rest == DfsFields(m, i + 1, sub.seen)
         IN  [lines |-> <<<<"field", f.name>>>> \o sub.lines \o rest.lines,
              seen |-> rest.seen]

RECURSIVE DfsList(_, _)
DfsList(ms, seen) ==
    IF ms = <<>> THEN <<>>
    ELSE LET r == DfsModel(ms[1], seen)
         IN  r.lines \o DfsList(Tail(ms), r.seen)

\* C10: the lines of the Schema Text follow the depth-first first-discovery
\* order: input models in list order, fields in declaration order, a related
\* model not yet visited expanded right after its relation field's line, and
\* exactly one field line per field of a described model.
C10_DepthFirstOrder ==
    Done =>
        LET L == SchemaLines
        IN  [p \in DOMAIN L |-> Shape(L[p])] = DfsList(models_list, {})

\* A model whose first field discovers another model and whose second field
\* relates to a model already visited: the discovered block lies between
\* the two field lines.
C10_Witness ==
    /\ Done
    /\ Len(models_list) = 1
    /\ LET m == models_list[1]
       IN  /\ Len(registry[m]) = 2
           /\ registry[m][1].related_model \notin {None, m}
           /\ registry[m][2].related_model \in Described
           /\ Shape(SchemaLines[2]) = <<"field", registry[m][1].name>>
           /\ Shape(SchemaLines[3])
                 = <<"model", ModelName(registry[m][1].related_model)>>
           /\ Shape(SchemaLines[Len(SchemaLines) - 1])
                 = <<"field", registry[m][2].name>>

\* =================================================================
\* Properties of nl_to_orm
\* =================================================================
\* The reply after whitespace trimming.
TrimmedReply == Strip(response)

\* q occurs in t as a contiguous piece.
ContainsSub(t, q) ==
    \E i \in 1..(Len(t) + 1) :
        i + Len(q) - 1 <= Len(t) /\ SubSeq(t, i, i + Len(q) - 1) = q

\* C5: with validation enabled, when the extracted text fails to parse the
\* call raises ValueError, and the message holds the parser's diagnostic and
\* the whole candidate text.
C5_SyntaxErrorCarriesText ==
    (Done /\ validate_code /\ ~AstParse(generated_query).ok) =>
        /\ outcome = "ValueError"
        /\ Mentions(result, {AstParse(generated_query).diag})
        /\ ContainsSub(result, generated_query)

\* The call "x(" with its unbalanced parenthesis has been refused.
C5_Witness ==
    /\ Done /\ validate_code
    /\ generated_query = <<"x", "(">>
    /\ outcome = "ValueError"
    /\ result = <<"Invalid query syntax: ", "( was never closed",
                  "\nQuery: ", "x", "(">>

\* Where the first line of t ends (0 when t is one line).
FirstNewline(t) == Find(t, <<NL>>)

\* The language tag of a fenced block: what stands between the opening
\* fence and the end of its line.
TagOf(t) ==
    IF StartsWith(t, FenceMark) /\ FirstNewline(t) > 4
    THEN SubSeq(t, 4, FirstNewline(t) - 1)
    ELSE <<>>

\* t is a fenced code block with a language tag: an opening fence, the tag,
\* a newline, the body, the closing fence.
FencedWithTag(t) ==
    /\ TagOf(t) # <<>>
    /\ \A i \in DOMAIN TagOf(t) : TagOf(t)[i] \in WordTokens
    /\ Len(t) >= FirstNewline(t) + 3
    /\ SubSeq(t, Len(t) - 2, Len(t)) = FenceMark

\* g holds no fence marker and is the trimmed beginning of what follows the
\* opening fence and its tag in t.
ExcludesFenceAndTag(t, g) ==
    LET after == SubSeq(t, FirstNewline(t), Len(t))
    IN  /\ ~ContainsSub(g, FenceMark)
        /\ \E k \in 0..Len(after) : g = Strip(SubSeq(after, 1, k))

\* C6 as stated: for a reply that, trimmed, is a fenced block with any
\* language tag, the extracted text holds neither fence markers nor the tag.
C6_AnyTagStripped ==
    (Done /\ FencedWithTag(TrimmedReply)) =>
        ExcludesFenceAndTag(TrimmedReply, generated_query)

\* C6 as amended: for a reply that, trimmed, is a fenced block whose
\* language tag is exactly "python", the extracted text holds neither fence
\* markers nor the tag.
C6_PythonTagStripped ==
    (Done /\ FencedWithTag(TrimmedReply) /\ TagOf(TrimmedReply) = <<"python">>)
        => ExcludesFenceAndTag(TrimmedReply, generated_query)

\* A padded reply with a python fence around "x" has given "x".
C6_Witness ==
    /\ Done
    /\ response = <<" ">> \o FencePython \o <<NL, "x">> \o FenceMark \o <<NL>>
    /\ FencedWithTag(TrimmedReply)
    /\ outcome = "returned"
    /\ result = <<"x">>

\* C7: with validation disabled, a call with a non-empty reply raises no
\* error and returns the trimmed, fence-stripped reply as it is, whether or
\* not it parses.
C7_UnvalidatedReturnsExtract ==
    (Done /\ ~validate_code /\ response # <<>>) =>
        /\ outcome = "returned"
        /\ result = ExtractCode(Strip(response))

\* A fenced reply whose code does not parse has been returned.
C7_Witness ==
    /\ Done /\ ~validate_code
    /\ response = FencePython \o <<NL, "x", "(">> \o FenceMark
    /\ outcome = "returned"
    /\ result = <<"x", "(">>
    /\ ~AstParse(result).ok

\* C8: the call with a model M and the call with the list [M], the other
\* arguments and the endpoint's reply being the same, give the same Schema
\* Text, starting model name, chat request and returned string or error.
C8_SingleEqualsList ==
    (Done /\ prev # <<>>) =>
        /\ arg = OtherForm(prev[1].arg)
        /\ schema_text = prev[1].schema
        /\ start_model = prev[1].start_model
        /\ request = prev[1].request
        /\ outcome = prev[1].outcome
        /\ result = prev[1].result

\* A call with [M] has followed a call with M, and both returned a query.
C8_Witness ==
    /\ Done /\ prev # <<>>
    /\ ~IsList(prev[1].arg) /\ IsList(arg)
    /\ response = prev[1].response
    /\ outcome = "returned" /\ result # <<>>
    /\ request # NoRequest

\* The trimmed text t parses as one standalone expression (ast.parse in
\* "eval" mode): one statement, an expression, with no ";".
ParsesAsExpression(t) ==
    LET r == AstParse(t) IN r.ok /\ r.stmts = 1 /\ r.semis = 0

\* C9 as stated: with validation enabled the call raises exactly when the
\* extracted text is no standalone expression, so what it returns is one.
C9_ExpressionOnly ==
    (Done /\ validate_code) =>
        (outcome = "ValueError" <=> ~ParsesAsExpression(generated_query))

\* C9 as amended: the call raises ValueError exactly when validation is
\* enabled and the extracted text fails to parse as a module (a sequence of
\* statements, possibly empty); what it returns with validation enabled
\* parses as a module.
C9_ModuleOnly ==
    Done =>
        /\ outcome = "ValueError"
              <=> (validate_code /\ ~AstParse(generated_query).ok)
        /\ (validate_code /\ outcome = "returned") =>
              (result = generated_query /\ AstParse(result).ok)

\* With validation enabled "x;", a statement line and no expression, has
\* been returned.
C9_Witness ==
    /\ Done /\ validate_code
    /\ outcome = "returned"
    /\ result = <<"x", ";">>
    /\ ~ParsesAsExpression(result)

====
